---- MODULE Spec2Model ----
(***************************************************************************)
(* pygmyapp/cdn: the derivative cache of the content server.               *)
(*                                                                         *)
(* Strings are modelled as sequences of one-character strings, so that     *)
(* string concatenation, prefix listing, split and Number() are computed   *)
(* the way the JavaScript code computes them.  A query parameter that is   *)
(* not given (undefined) is the one-element sequence Undefined.            *)
(***************************************************************************)
EXTENDS Integers, Sequences, FiniteSets, TLC

VARIABLES
    objects,     \* the MinIO store: objects[bucket] maps object names to objects
    snowflake,   \* number of ids generateSnowflake() has issued
    last,        \* what the most recent handler did and answered
    psize,       \* pure-function harness: a raw size string ...
    pout,        \* ... and what parseSize / Number made of it
    kreq,        \* pure-function harness: two read requests on one origin ...
    kout,        \* ... and the cache keys built for them
    requests,    \* authMiddleware: the authenticated requests and where they stand
    listeners,   \* authMiddleware: the requests whose listener is registered on ipc
    sent,        \* authMiddleware: the VERIFY_TOKEN requests sent to rest
    reads        \* GET /:bucket/:id run as interleaved steps: the reads in flight

vars == <<objects, snowflake, last, psize, pout, kreq, kout, requests, listeners, sent, reads>>

(***************************************************************************)
(* Bounds of the model                                                     *)
(***************************************************************************)
MaxCacheEntries == 2   \* objects in the cache bucket
MaxSnowflakes == 1     \* attachment uploads
MaxSizeLen == 3        \* length of the raw size strings of the parse harness
MaxRequests == 2       \* authenticated requests

(***************************************************************************)
(* String literals                                                         *)
(***************************************************************************)
Undefined == <<"#undefined">>
Null == <<"#null">>
NaN == 0 - 1

s_png == <<"p", "n", "g">>
s_jpeg == <<"j", "p", "e", "g">>
s_webp == <<"w", "e", "b", "p">>
s_avif == <<"a", "v", "i", "f">>
s_gif == <<"g", "i", "f">>
s_pdf == <<"p", "d", "f">>
s_image == <<"i", "m", "a", "g", "e", "/">>
s_apppdf == <<"a", "p", "p", "l", "i", "c", "a", "t", "i", "o", "n", "/", "p", "d", "f">>
s_avatars == <<"a", "v", "a", "t", "a", "r", "s">>
s_attachments == <<"a", "t", "t", "a", "c", "h", "m", "e", "n", "t", "s">>
s_cache == <<"c", "a", "c", "h", "e">>
s_delim == <<"_", "_">>
s_us == <<"_">>

DecDigits == <<"0", "1", "2", "3", "4", "5", "6", "7", "8", "9">>
HexDigits == DecDigits \o <<"a", "b", "c", "d", "e", "f">>
BinDigits == <<"0", "1">>

Range(q) == {q[i] : i \in DOMAIN q}

StartsWith(s, p) == Len(s) >= Len(p) /\ SubSeq(s, 1, Len(p)) = p

IndexOf(q, c) == CHOOSE i \in DOMAIN q : q[i] = c

\* the value of a non-empty digit string in the given base
RECURSIVE Val(_, _)
Val(s, digits) ==
    IF s = <<>> THEN 0
    ELSE Val(SubSeq(s, 1, Len(s) - 1), digits) * Len(digits)
         + (IndexOf(digits, s[Len(s)]) - 1)

HasPrefixLiteral(s, letter, digits) ==
    /\ Len(s) >= 3
    /\ s[1] = "0"
    /\ s[2] = letter
    /\ Range(SubSeq(s, 3, Len(s))) \subseteq Range(digits)

(***************************************************************************)
(* Number(str) of JavaScript, over strings of decimal digits, lower-case   *)
(* letters a, b, c, x and "_": the empty string is 0, a decimal, 0x or 0b  *)
(* literal is its value, anything else (and undefined) is NaN.             *)
(***************************************************************************)
Number(s) ==
    IF s = Undefined THEN NaN
    ELSE IF s = <<>> THEN 0
    ELSE IF Range(s) \subseteq Range(DecDigits) THEN Val(s, DecDigits)
    ELSE IF HasPrefixLiteral(s, "x", HexDigits) THEN Val(SubSeq(s, 3, Len(s)), HexDigits)
    ELSE IF HasPrefixLiteral(s, "b", BinDigits) THEN Val(SubSeq(s, 3, Len(s)), BinDigits)
    ELSE NaN

\* `${n}` for a non-negative integer
RECURSIVE NumToStr(_)
NumToStr(n) ==
    IF n < 10 THEN <<DecDigits[n + 1]>>
    ELSE NumToStr(n \div 10) \o <<DecDigits[(n % 10) + 1]>>

\* str.split(c)
RECURSIVE Split(_, _)
Split(s, c) ==
    IF c \notin Range(s) THEN <<s>>
    ELSE LET i == CHOOSE k \in DOMAIN s :
                      s[k] = c /\ \A j \in 1..(k - 1) : s[j] # c
         IN <<SubSeq(s, 1, i - 1)>> \o Split(SubSeq(s, i + 1, Len(s)), c)

Falsy(n) == n = 0 \/ n = NaN

NoDims == [given |-> FALSE]
Dims(w, h) == [given |-> TRUE, width |-> w, height |-> h]

parseSize(str) ==
    IF str = Undefined \/ str = <<>> THEN NoDims
    ELSE IF "x" \in Range(str)
    THEN LET parts == Split(str, "x")
             w == Number(parts[1])
             h == Number(parts[2])
         IN IF Falsy(w) \/ Falsy(h) \/ w = NaN \/ h = NaN
            THEN NoDims
            ELSE Dims(w, h)
    ELSE LET n == Number(str)
         IN IF n = NaN THEN NoDims ELSE Dims(n, n)

ImageFormats == {s_png, s_jpeg, s_webp, s_avif}

isValidFormat(fmt) == fmt \in ImageFormats

\* mime.getExtension(contentType)
getExtension(ct) ==
    IF StartsWith(ct, s_image) /\ SubSeq(ct, Len(s_image) + 1, Len(ct)) \in ImageFormats
    THEN SubSeq(ct, Len(s_image) + 1, Len(ct))
    ELSE IF ct = s_apppdf THEN s_pdf
    ELSE Null

\* the content-type test of GET, passed by every content-type: mutant
IsImageTypeAlways(ct) == TRUE

IsImageType(ct) == StartsWith(ct, s_image)

\* the cache key of a read: `${id}__${type || ext}${size ? `_${size}` : ''}`
cacheKey(id, type, sizeQ, ct) ==
    LET size == Number(sizeQ)
    IN id \o s_delim
          \o (IF type # Undefined /\ type # <<>> THEN type ELSE getExtension(ct))
          \o (IF Falsy(size) THEN <<>> ELSE s_us \o NumToStr(size))

(***************************************************************************)
(* Files, objects and the store                                            *)
(***************************************************************************)
Errors ==
    [ServerError |-> "Server Error",
     InvalidToken |-> "Invalid token",
     InvalidTokenType |-> "Invalid token type",
     InvalidFileType |-> "Invalid or unaccepted file type",
     ExceedsSizeLimit |-> "File exceeds upload size limit",
     InvalidBucket |-> "Specified bucket does not exist",
     FileNotFound |-> "File not found",
     FileNotFoundNoFallback |-> "File not found (no fallback available)",
     InvalidImageType |-> "Invalid image type/extension",
     Forbidden |-> "Forbidden (insufficient privlidges to delete object)"]

Buckets == {s_cache, s_attachments, s_avatars}

\* the bytes of an image: which upload they come from, their encoding and
\* pixel size, and whether they are the output of the transform engine
Image(src, fmt, w, h, re) == [src |-> src, fmt |-> fmt, w |-> w, h |-> h, re |-> re]

NoBody == [src |-> "none"]

FileA == [type |-> s_image \o s_jpeg, size |-> 1, data |-> Image("A", s_jpeg, 1000, 1000, FALSE)]
FileB == [type |-> s_image \o s_png, size |-> 2, data |-> Image("B", s_png, 1200, 800, FALSE)]
FileC == [type |-> s_image \o s_jpeg, size |-> 1, data |-> Image("C", s_jpeg, 800, 800, FALSE)]
FileD == [type |-> s_apppdf, size |-> 1, data |-> Image("D", s_pdf, 0, 0, FALSE)]
FileX == [type |-> s_image \o s_png, size |-> 11, data |-> Image("X", s_png, 4000, 4000, FALSE)]

\* config.uploadSizeLimit, in MB
uploadSizeLimit == 10

\* config.uploadFileTypes
uploadTypeLimits(bucket) ==
    IF bucket = s_avatars THEN ImageFormats
    ELSE IF bucket = s_attachments THEN ImageFormats \cup {s_pdf}
    ELSE {}

\* the etag MinIO gives an object: a hash of its content
Etag(data) == <<"md5", data>>

\* metadata that records no uploader: mutant
OriginUnowned(file, userId) ==
    [data |-> file.data, ctype |-> file.type, userid |-> Null,
     xetag |-> Null, gen |-> Null]

Origin(file, userId) ==
    [data |-> file.data, ctype |-> file.type, userid |-> userId,
     xetag |-> Null, gen |-> Null]

Has(objs, b, k) == k \in DOMAIN objs[b]

\* minio.putObject: overwrites
PutObject(objs, b, k, o) ==
    [objs EXCEPT ![b] = [x \in DOMAIN objs[b] \cup {k} |-> IF x = k THEN o ELSE objs[b][x]]]

\* minio.removeObjects
RemoveObjects(objs, b, ks) ==
    [objs EXCEPT ![b] = [x \in DOMAIN objs[b] \ ks |-> objs[b][x]]]

\* minio.listObjectsV2('cache', `${id}__`, true)
ListCache(objs, id) == {k \in DOMAIN objs[s_cache] : StartsWith(k, id \o s_delim)}

(***************************************************************************)
(* invalidateCacheFor(id).  inv is what the storage backend does: "ok",    *)
(* "listError" (the listing stream emits error: the promise rejects) or    *)
(* "removeError" (removeObjects rejects inside the end handler: the        *)
(* promise is never settled).                                              *)
(***************************************************************************)
invalidateCacheFor(objs, id, inv) ==
    LET found == ListCache(objs, id)
    IN IF inv = "listError" THEN [objs |-> objs, outcome |-> "rejected", removed |-> {}]
       ELSE IF found # {} /\ inv = "removeError"
       THEN [objs |-> objs, outcome |-> "pending", removed |-> {}]
       ELSE [objs |-> RemoveObjects(objs, s_cache, found), outcome |-> "resolved",
             removed |-> found]

InvOutcomes == {"ok", "listError", "removeError"}

(***************************************************************************)
(* What a handler did and answered.  status 0: no response is ever sent.   *)
(***************************************************************************)
Idle ==
    [op |-> "none", bucket |-> <<>>, id |-> <<>>, type |-> Undefined,
     sizeQ |-> Undefined, user |-> <<>>, status |-> 0, error |-> "",
     body |-> NoBody, ctype |-> Null, image |-> FALSE, origin |-> NoBody,
     originEtag |-> Null, key |-> <<>>, cacheServed |-> FALSE, servedGen |-> Null,
     cachedEtag |-> Null, stale |-> FALSE, staleData |-> NoBody, invalidation |-> "none",
     removed |-> {}, removedOf |-> {}, engine |-> FALSE, wrote |-> FALSE,
     fallbacks |-> {}]

Json(r, status, error) == [r EXCEPT !.status = status, !.error = error]

(***************************************************************************)
(* The transform engine: sharp(buffer).resize(w, h, {fit: 'inside',        *)
(* withoutEnlargement: true}).toFormat(format).toBuffer()                  *)
(***************************************************************************)
Round(num, den) == (2 * num + den) \div (2 * den)

Max(a, b) == IF a >= b THEN a ELSE b

FitInside(W, H, w, h) ==
    IF w >= W /\ h >= H THEN <<W, H>>
    ELSE IF w * H <= h * W THEN <<w, Max(1, Round(H * w, W))>>
    ELSE <<Max(1, Round(W * h, H)), h>>

\* sharp rejects a width or height that is not a positive integer
ResizeThrows(doResize, dims) == doResize /\ (dims.width <= 0 \/ dims.height <= 0)

Transform(buffer, doResize, dims, doFormat, type) ==
    LET wh == IF doResize
              THEN FitInside(buffer.w, buffer.h, dims.width, dims.height)
              ELSE <<buffer.w, buffer.h>>
        format == IF isValidFormat(type) THEN type ELSE s_jpeg
    IN Image(buffer.src, IF doFormat THEN format ELSE buffer.fmt, wh[1], wh[2], TRUE)

(***************************************************************************)
(* GET /:bucket/:id, the decision whether the transformer is used          *)
(***************************************************************************)
useTransform(type, dimensions, width, height, ext) ==
    LET first == IF dimensions.given /\ dimensions.width >= width
                                     /\ dimensions.height >= height
                 THEN type # ext
                 ELSE TRUE
    IN IF ~first /\ type # ext THEN type # ext ELSE first

\* the etag comparison of the cache lookup, always true: mutant
etagMatchesAlways(cachedEtag, etag) == TRUE

\* the etag comparison of the cache lookup, never true: mutant
etagMatchesNever(cachedEtag, etag) == FALSE

etagMatches(cachedEtag, etag) == cachedEtag = etag

\* the fallback of GET, given for every bucket: mutant
fallsBackAnyBucket(bucket) == TRUE

fallsBack(bucket) == bucket = s_avatars

(***************************************************************************)
(* GET /:bucket/:id: the catch block for an absent origin                  *)
(***************************************************************************)
GetNotFound(r0, fb) ==
    LET r == [r0 EXCEPT !.fallbacks = fb]
    IN
    IF fallsBack(r.bucket)
    THEN LET fmt == IF r.type # Undefined /\ r.type # <<>> THEN r.type ELSE s_webp
         IN IF fmt \notin fb
            THEN Json(r, 404, Errors.FileNotFoundNoFallback)
            ELSE [r EXCEPT !.status = 200, !.ctype = s_image \o fmt,
                           !.body = [src |-> "default-avatar", fmt |-> fmt]]
    ELSE Json(r, 404, Errors.FileNotFound)

(***************************************************************************)
(* GET /:bucket/:id for an image origin: after the cache lookup missed or  *)
(* found a stale entry (objs is the store after the invalidation)          *)
(***************************************************************************)
\* the write-back that leaves out the x-original-etag stamp: mutant
CacheEntryUnstamped(r, o, served, dimensions) ==
    [data |-> served,
     ctype |-> IF r.type # Undefined /\ r.type # <<>> THEN s_image \o r.type ELSE o.ctype,
     userid |-> o.userid,
     xetag |-> Null,
     gen |-> [bucket |-> r.bucket, id |-> r.id, format |-> served.fmt,
              dimensions |-> dimensions]]

\* the object the write-back puts under the cache key: the served bytes and
\* the metadata Content-Type, x-original-etag and userId (gen records what the
\* entry was generated from and for)
CacheEntry(r, o, served, dimensions) ==
    [data |-> served,
     ctype |-> IF r.type # Undefined /\ r.type # <<>> THEN s_image \o r.type ELSE o.ctype,
     userid |-> o.userid,
     xetag |-> Etag(o.data),
     gen |-> [bucket |-> r.bucket, id |-> r.id, format |-> served.fmt,
              dimensions |-> dimensions]]

GetGenerate(objs, r, o) ==
    LET dimensions == parseSize(r.sizeQ)
        ext == getExtension(o.ctype)
        use == useTransform(r.type, dimensions, o.data.w, o.data.h, ext)
        doResize == r.sizeQ # Undefined /\ dimensions.given
        doFormat == r.type # Undefined /\ r.type # ext
        isTransformed == use /\ (doResize \/ doFormat)
        served == IF use THEN Transform(o.data, doResize, dimensions, doFormat, r.type)
                  ELSE o.data
        entry == CacheEntry(r, o, served, dimensions)
    IN IF use /\ ResizeThrows(doResize, dimensions)
       THEN [objs |-> objs, r |-> Json([r EXCEPT !.engine = TRUE], 500, Errors.ServerError)]
       ELSE [objs |-> IF isTransformed THEN PutObject(objs, s_cache, r.key, entry) ELSE objs,
             r |-> [r EXCEPT !.status = 200, !.body = served, !.engine = use,
                             !.wrote = isTransformed,
                             !.ctype = IF ~use THEN Null
                                       ELSE IF doFormat THEN s_image \o r.type
                                       ELSE o.ctype]]

(***************************************************************************)
(* GET /:bucket/:id                                                        *)
(***************************************************************************)
GetHandler(objs, fb, bucket, id, type, sizeQ, inv) ==
    LET r0 == [Idle EXCEPT !.op = "GET", !.bucket = bucket, !.id = id,
                           !.type = type, !.sizeQ = sizeQ]
    IN IF type # Undefined /\ type # <<>> /\ ~isValidFormat(type)
       THEN [objs |-> objs, r |-> Json(r0, 400, Errors.InvalidImageType)]
       ELSE IF ~Has(objs, bucket, id)
       THEN [objs |-> objs, r |-> GetNotFound(r0, fb)]
       ELSE LET o == objs[bucket][id]
                etag == Etag(o.data)
            IN IF ~IsImageType(o.ctype)
               THEN [objs |-> objs,
                     r |-> [r0 EXCEPT !.status = 200, !.body = o.data, !.ctype = o.ctype,
                                      !.origin = o.data, !.originEtag = etag]]
               ELSE LET key == cacheKey(id, type, sizeQ, o.ctype)
                        r1 == [r0 EXCEPT !.image = TRUE, !.origin = o.data,
                                         !.originEtag = etag, !.key = key]
                    IN IF ~Has(objs, s_cache, key)
                       THEN GetGenerate(objs, r1, o)
                       ELSE LET cached == objs[s_cache][key]
                            IN IF etagMatches(cached.xetag, etag)
                               THEN [objs |-> objs,
                                     r |-> [r1 EXCEPT !.status = 200, !.body = cached.data,
                                                      !.ctype = cached.ctype,
                                                      !.cacheServed = TRUE,
                                                      !.cachedEtag = cached.xetag,
                                                      !.servedGen = cached.gen]]
                               ELSE LET i == invalidateCacheFor(objs, id, inv)
                                        r2 == [r1 EXCEPT !.stale = TRUE,
                                                 !.cachedEtag = cached.xetag,
                                                 !.staleData = cached.data,
                                                 !.invalidation = i.outcome,
                                                 !.removed = i.removed,
                                                 !.removedOf =
                                                     {<<objs[s_cache][k].gen.bucket,
                                                        objs[s_cache][k].gen.id>> :
                                                          k \in i.removed}]
                                    IN IF i.outcome = "pending"
                                       THEN [objs |-> i.objs, r |-> r2]
                                       ELSE GetGenerate(i.objs, r2, o)

(***************************************************************************)
(* POST /upload, for the user the auth middleware resolved                 *)
(***************************************************************************)
generateSnowflake(n) == <<"9">> \o NumToStr(n)

UploadHandler(objs, n, userId, file, bucket) ==
    LET r0 == [Idle EXCEPT !.op = "UPLOAD", !.bucket = bucket, !.user = userId,
                           !.origin = file.data]
        ext == getExtension(file.type)
        id == IF bucket = s_attachments THEN generateSnowflake(n) ELSE userId
    IN IF ext = Null \/ ext \notin uploadTypeLimits(bucket)
       THEN [objs |-> objs, n |-> n, r |-> Json(r0, 400, Errors.InvalidFileType)]
       ELSE IF file.size > uploadSizeLimit
       THEN [objs |-> objs, n |-> n, r |-> Json(r0, 400, Errors.ExceedsSizeLimit)]
       ELSE IF bucket \notin Buckets
       THEN [objs |-> objs, n |-> n, r |-> Json(r0, 400, Errors.InvalidBucket)]
       ELSE [objs |-> PutObject(objs, bucket, id, Origin(file, userId)),
             n |-> IF bucket = s_attachments THEN n + 1 ELSE n,
             r |-> [r0 EXCEPT !.status = 201, !.id = id]]

\* the ownership check of DELETE, always passed: mutant
isOwnerAlways(userId, stat) == TRUE

isOwner(userId, stat) == userId = stat.userid

\* DELETE that removes the original and leaves its cached variants: mutant
deleteVariantsNever(objs, stat, id, inv) ==
    [objs |-> objs, outcome |-> "resolved", removed |-> {}]

\* DELETE: "Delete any cached variants"
deleteVariants(objs, stat, id, inv) ==
    IF IsImageType(stat.ctype) THEN invalidateCacheFor(objs, id, inv)
    ELSE [objs |-> objs, outcome |-> "resolved", removed |-> {}]

(***************************************************************************)
(* DELETE /:bucket/:id/object, for the user the auth middleware resolved   *)
(***************************************************************************)
DeleteHandler(objs, userId, bucket, id, inv) ==
    LET r0 == [Idle EXCEPT !.op = "DELETE", !.bucket = bucket, !.id = id,
                           !.user = userId]
    IN IF ~Has(objs, bucket, id)
       THEN [objs |-> objs, r |-> Json(r0, 404, Errors.FileNotFound)]
       ELSE LET stat == objs[bucket][id]
                r1 == [r0 EXCEPT !.image = IsImageType(stat.ctype),
                                 !.origin = stat.data]
            IN IF ~isOwner(userId, stat)
               THEN [objs |-> objs, r |-> Json(r1, 400, Errors.Forbidden)]
               ELSE LET gone == RemoveObjects(objs, bucket, {id})
                        i == deleteVariants(gone, stat, id, inv)
                        r2 == [r1 EXCEPT !.invalidation = i.outcome,
                                 !.removed = i.removed,
                                 !.removedOf =
                                     {<<gone[s_cache][k].gen.bucket,
                                        gone[s_cache][k].gen.id>> : k \in i.removed}]
                    IN [objs |-> i.objs,
                        r |-> IF i.outcome = "resolved" THEN [r2 EXCEPT !.status = 204]
                              ELSE IF i.outcome = "rejected"
                              THEN Json(r2, 500, Errors.ServerError)
                              ELSE r2]

(***************************************************************************)
(* ipc message DELETE_AVATAR_IF_EXISTS                                     *)
(***************************************************************************)
IpcDeleteAvatarHandler(objs, userId, inv) ==
    LET r0 == [Idle EXCEPT !.op = "IPC_DELETE_AVATAR", !.bucket = s_avatars,
                           !.id = userId, !.user = userId]
    IN IF ~Has(objs, s_avatars, userId)
       THEN [objs |-> objs, r |-> Json(r0, 0, "false")]
       ELSE LET stat == objs[s_avatars][userId]
                gone == RemoveObjects(objs, s_avatars, {userId})
                i == IF IsImageType(stat.ctype)
                     THEN invalidateCacheFor(gone, userId, inv)
                     ELSE [objs |-> gone, outcome |-> "resolved", removed |-> {}]
                r1 == [r0 EXCEPT !.image = IsImageType(stat.ctype),
                                 !.origin = stat.data,
                                 !.invalidation = i.outcome, !.removed = i.removed,
                                 !.removedOf =
                                     {<<gone[s_cache][k].gen.bucket,
                                        gone[s_cache][k].gen.id>> : k \in i.removed}]
            IN [objs |-> i.objs,
                r |-> IF i.outcome = "resolved" THEN Json(r1, 0, "true")
                      ELSE IF i.outcome = "rejected" THEN Json(r1, 0, "false")
                      ELSE r1]

(***************************************************************************)
(* authMiddleware.  A message on ipc is a record of its sender, the type    *)
(* and action of its payload, the names of the further fields the payload   *)
(* has, and their values.                                                   *)
(***************************************************************************)
s_Bearer == <<"B", "e", "a", "r", "e", "r">>
s_Basic == <<"B", "a", "s", "i", "c">>
s_space == <<" ">>

\* the synchronous part: the Authorization header is taken apart
authHeader(header) ==
    IF header = Undefined \/ header = <<>>
    THEN [ok |-> FALSE, error |-> Errors.InvalidToken, token |-> Undefined]
    ELSE LET parts == Split(header, " ")
             type == parts[1]
             token == IF Len(parts) >= 2 THEN parts[2] ELSE Undefined
             other == SubSeq(parts, 3, Len(parts))
         IN IF type = <<>> \/ token = Undefined \/ token = <<>> \/ Len(other) # 0
            THEN [ok |-> FALSE, error |-> Errors.InvalidToken, token |-> Undefined]
            ELSE IF type # s_Bearer
            THEN [ok |-> FALSE, error |-> Errors.InvalidTokenType, token |-> Undefined]
            ELSE [ok |-> TRUE, error |-> "", token |-> token]

\* the listener's test with the comparison of the token left out: mutant
isVerifyResponseAnyToken(message, token) ==
    /\ message.from = "rest"
    /\ message.type = "response"
    /\ message.action = "VERIFY_TOKEN"
    /\ {"token", "valid", "userId"} \subseteq message.fields

\* the test of the listener the middleware registers on ipc 'message'
isVerifyResponse(message, token) ==
    /\ message.from = "rest"
    /\ message.type = "response"
    /\ message.action = "VERIFY_TOKEN"
    /\ "token" \in message.fields
    /\ message.token = token
    /\ "valid" \in message.fields
    /\ "userId" \in message.fields

NoMessage == [from |-> "none"]

NoRequest ==
    [phase |-> "none", header |-> Undefined, token |-> Undefined, response |-> NoMessage,
     valid |-> FALSE, userId |-> Null, ran |-> FALSE, status |-> 0, error |-> ""]

\* a registered listener is called with the message: it resolves the promise
\* of its request when the message passes the test; a promise is resolved once
listenerCalled(req, message) ==
    IF isVerifyResponse(message, req.token) /\ req.phase = "waiting"
    THEN [req EXCEPT !.phase = "resolved", !.response = message,
                     !.valid = message.valid, !.userId = message.userId]
    ELSE req

(***************************************************************************)
(* The inputs of the model                                                 *)
(***************************************************************************)
Users == {<<"1">>, <<"2">>}

\* POST /upload: <<user, file, bucket>>
UploadInputs ==
    {<<<<"1">>, FileA, s_avatars>>, <<<<"1">>, FileB, s_avatars>>,
     <<<<"1">>, FileD, s_avatars>>, <<<<"1">>, FileX, s_avatars>>,
     <<<<"1">>, FileD, s_attachments>>, <<<<"2">>, FileA, s_cache>>}

s_2000 == <<"2", "0", "0", "0">>
s_800x600 == <<"8", "0", "0", "x", "6", "0", "0">>

\* GET /:bucket/:id: the <<type, size>> query parameters tried on each bucket
Queries(bucket) ==
    IF bucket = s_avatars
    THEN {<<Undefined, Undefined>>, <<Undefined, s_2000>>, <<Undefined, s_800x600>>,
          <<s_jpeg, s_2000>>, <<s_gif, Undefined>>}
    ELSE IF bucket = s_attachments
    THEN {<<Undefined, Undefined>>, <<s_webp, Undefined>>, <<Undefined, s_2000>>,
          <<s_webp, s_2000>>, <<s_gif, Undefined>>}
    ELSE {<<Undefined, Undefined>>, <<s_webp, Undefined>>}

\* what ./public may hold: the formats for which default-avatar.<fmt> exists
FallbackChoices == {{s_webp}, {s_jpeg}}

\* the ids requests name: the first user's id, the first id generateSnowflake
\* issues, and the names of the objects of the bucket
RequestIds(b) ==
    IF b = s_avatars THEN {<<"1">>}
    ELSE IF b = s_attachments THEN {generateSnowflake(0)}
    ELSE {<<"1">>} \cup DOMAIN objects[b]

\* the storage outcomes that make a difference to a handler that invalidates
\* the cached variants of id
InvChoices(invalidates, id) ==
    IF ~invalidates THEN {"ok"}
    ELSE IF ListCache(objects, id) = {} THEN {"ok", "listError"}
    ELSE InvOutcomes

EmptyBucket == [k \in {} |-> NoBody]

NoParse == [dimensions |-> NoDims, number |-> NaN, done |-> FALSE]

NoKeys ==
    [id |-> <<>>, ctype |-> Null, type1 |-> Undefined, size1 |-> Undefined,
     type2 |-> Undefined, size2 |-> Undefined]

PureIdle ==
    /\ psize = Undefined
    /\ pout = NoParse
    /\ kreq = NoKeys
    /\ kout = <<>>

\* a read of GET /:bucket/:id that has not started: pc is the await the read
\* is at, the other fields are the handler's local variables and its response
NoRead ==
    [pc |-> "idle", bucket |-> <<>>, id |-> <<>>, type |-> Undefined, sizeQ |-> Undefined,
     stat |-> NoBody, etag |-> Null, buffer |-> NoBody, key |-> <<>>,
     cachedData |-> NoBody, cachedStamp |-> Null, cachedEtag |-> Null,
     missed |-> FALSE, stale |-> FALSE, found |-> {}, entry |-> NoBody,
     status |-> 0, body |-> NoBody, cacheServed |-> FALSE, wrote |-> FALSE,
     overwrote |-> FALSE]

\* the two reads that run at the same time
Readers == {1, 2}

Init ==
    /\ objects = [b \in Buckets |-> EmptyBucket]
    /\ snowflake = 0
    /\ last = Idle
    /\ PureIdle
    /\ requests = [i \in 1..MaxRequests |-> NoRequest]
    /\ listeners = {}
    /\ sent = {}
    /\ reads = [p \in Readers |-> NoRead]

CacheBounded(objs) == Cardinality(DOMAIN objs[s_cache]) <= MaxCacheEntries

Upload ==
    \E in \in UploadInputs :
        \E res \in {UploadHandler(objects, snowflake, in[1], in[2], in[3])} :
           /\ res.n <= MaxSnowflakes
           /\ objects' = res.objs
           /\ snowflake' = res.n
           /\ last' = res.r
           /\ UNCHANGED <<psize, pout, kreq, kout, requests, listeners, sent, reads>>

\* the read finds a cached entry whose stamp differs from the origin's etag
ReadsStale(bucket, id, type, size) ==
    /\ Has(objects, bucket, id)
    /\ IsImageType(objects[bucket][id].ctype)
    /\ LET key == cacheKey(id, type, size, objects[bucket][id].ctype)
       IN /\ Has(objects, s_cache, key)
          /\ objects[s_cache][key].xetag # Etag(objects[bucket][id].data)

\* the read ends in the catch block that looks for a default avatar
ReadsFallback(bucket, id, type) ==
    /\ ~Has(objects, bucket, id)
    /\ bucket = s_avatars
    /\ type = Undefined \/ isValidFormat(type)

Get ==
    \E bucket \in Buckets :
        \E id \in RequestIds(bucket), q \in Queries(bucket) :
            \E inv \in InvChoices(ReadsStale(bucket, id, q[1], q[2]), id),
               fb \in IF ReadsFallback(bucket, id, q[1]) THEN FallbackChoices ELSE {{}} :
                \E res \in {GetHandler(objects, fb, bucket, id, q[1], q[2], inv)} :
                   /\ CacheBounded(res.objs)
                   /\ objects' = res.objs
                   /\ last' = res.r
                   /\ UNCHANGED <<snowflake, psize, pout, kreq, kout, requests, listeners, sent, reads>>

Delete ==
    \E userId \in Users, bucket \in Buckets :
        \E id \in RequestIds(bucket) :
            \E inv \in InvChoices(Has(objects, bucket, id), id) :
                \E res \in {DeleteHandler(objects, userId, bucket, id, inv)} :
                   /\ objects' = res.objs
                   /\ last' = res.r
                   /\ UNCHANGED <<snowflake, psize, pout, kreq, kout, requests, listeners, sent, reads>>

IpcDeleteAvatar ==
    \E userId \in Users :
        \E inv \in InvChoices(Has(objects, s_avatars, userId), userId) :
            \E res \in {IpcDeleteAvatarHandler(objects, userId, inv)} :
               /\ objects' = res.objs
               /\ last' = res.r
               /\ UNCHANGED <<snowflake, psize, pout, kreq, kout, requests, listeners, sent, reads>>

Next == Upload \/ Get \/ Delete \/ IpcDeleteAvatar

Spec == Init /\ [][Next]_vars

(***************************************************************************)
(* The pure functions on their own, one application at a time: parseSize   *)
(* and Number on every short size string, and the cache keys of two reads  *)
(* of one origin                                                           *)
(***************************************************************************)
SizeAlphabet == {"0", "1", "5", "x", "a", "b"}

SizeStrings ==
    UNION {[1..n -> SizeAlphabet] : n \in 0..MaxSizeLen}
        \cup {Undefined, <<"5", "1", "2">>, <<"a", "b", "c">>, s_2000, s_800x600}

KeyTypes == {Undefined, s_jpeg, s_png}
KeySizes ==
    {Undefined, <<"5", "1", "2">>, <<"5", "1", "2", "x", "5", "1", "2">>, s_800x600,
     <<"4", "0", "0", "x", "3", "0", "0">>}
KeyContentTypes == {s_image \o s_jpeg, s_image \o s_png}

ParseSizeStep ==
    \E str \in SizeStrings :
        /\ PureIdle
        /\ psize' = str
        /\ pout' = [dimensions |-> parseSize(str), number |-> Number(str), done |-> TRUE]
        /\ kreq' = NoKeys
        /\ kout' = <<>>
        /\ UNCHANGED <<objects, snowflake, last, requests, listeners, sent, reads>>

BuildKeys ==
    \E t1 \in KeyTypes, t2 \in KeyTypes, s1 \in KeySizes, s2 \in KeySizes,
       ct \in KeyContentTypes :
        /\ PureIdle
        /\ kreq' = [id |-> <<"1">>, ctype |-> ct, type1 |-> t1, size1 |-> s1,
                    type2 |-> t2, size2 |-> s2]
        /\ kout' = <<cacheKey(<<"1">>, t1, s1, ct), cacheKey(<<"1">>, t2, s2, ct)>>
        /\ psize' = Undefined
        /\ pout' = NoParse
        /\ UNCHANGED <<objects, snowflake, last, requests, listeners, sent, reads>>

NextPure == ParseSizeStep \/ BuildKeys

SpecPure == Init /\ [][NextPure]_vars

(***************************************************************************)
(* authMiddleware as interleaved steps: a request arrives with its          *)
(* Authorization header, messages arrive on ipc, the middleware continues   *)
(* after its promise is resolved, and the route handler returns.            *)
(***************************************************************************)
Tokens == {<<"a">>, <<"b">>}

Headers ==
    {Undefined, <<>>, s_Bearer, s_Bearer \o s_space, s_space \o <<"a">>,
     s_Bearer \o s_space \o <<"a">> \o s_space \o <<"b">>,
     s_Bearer \o s_space \o s_space \o <<"a">>,
     s_Basic \o s_space \o <<"a">>}
        \cup {s_Bearer \o s_space \o t : t \in Tokens}

FieldSets ==
    {{"token", "valid", "userId"}, {"valid", "userId"}, {"token", "userId"},
     {"token", "valid"}}

\* the answers rest may give to VERIFY_TOKEN
VerifyResponses ==
    [from : {"rest"}, type : {"response"}, action : {"VERIFY_TOKEN"},
     fields : {{"token", "valid", "userId"}},
     token : Tokens, valid : BOOLEAN, userId : Users \cup {Null}]

\* what may arrive on ipc: the answers of rest, and the messages that differ
\* from an answer that authorizes in their sender, their type, their action
\* or in a field they lack
IpcMessages ==
    VerifyResponses
        \cup UNION {{[m EXCEPT !.from = "gateway"], [m EXCEPT !.type = "request"],
                     [m EXCEPT !.action = "CHECK_IF_AVATAR_EXISTS"]}
                        \cup {[m EXCEPT !.fields = f] : f \in FieldSets} :
                    m \in {v \in VerifyResponses : v.valid /\ v.userId = <<"1">>}}

outsideAuth == <<objects, snowflake, last, psize, pout, kreq, kout, reads>>

\* a request arrives at a route behind authMiddleware
AuthRequest ==
    \E i \in 1..MaxRequests, header \in Headers :
        \E h \in {authHeader(header)} :
           /\ requests[i].phase = "none"
           /\ \A j \in 1..(i - 1) : requests[j].phase # "none"
           /\ IF ~h.ok
              THEN /\ requests' = [requests EXCEPT ![i] =
                          [NoRequest EXCEPT !.phase = "done", !.header = header,
                                            !.status = 401, !.error = h.error]]
                   /\ UNCHANGED <<listeners, sent>>
              ELSE /\ requests' = [requests EXCEPT ![i] =
                          [NoRequest EXCEPT !.phase = "waiting", !.header = header,
                                            !.token = h.token]]
                   /\ listeners' = listeners \cup {i}
                   /\ sent' = sent \cup {<<i, h.token>>}
           /\ UNCHANGED outsideAuth

\* a message arrives on ipc: every registered listener is called with it
IpcMessage ==
    \E message \in IpcMessages :
        /\ listeners # {}
        /\ requests' = [i \in 1..MaxRequests |->
                           IF i \in listeners THEN listenerCalled(requests[i], message)
                           ELSE requests[i]]
        /\ UNCHANGED <<listeners, sent>>
        /\ UNCHANGED outsideAuth

\* the middleware goes on after the await: 401, or next()
AuthContinue ==
    \E i \in 1..MaxRequests :
        /\ requests[i].phase = "resolved"
        /\ requests' = [requests EXCEPT ![i] =
               IF ~requests[i].valid \/ requests[i].userId = Null
               THEN [@ EXCEPT !.phase = "done", !.status = 401,
                              !.error = Errors.InvalidToken, !.userId = Null]
               ELSE [@ EXCEPT !.phase = "handler", !.ran = TRUE]]
        /\ UNCHANGED <<listeners, sent>>
        /\ UNCHANGED outsideAuth

\* the route handler returns its response
HandlerReturns ==
    \E i \in 1..MaxRequests :
        /\ requests[i].phase = "handler"
        /\ requests' = [requests EXCEPT ![i] = [@ EXCEPT !.phase = "done", !.status = 200]]
        /\ UNCHANGED <<listeners, sent>>
        /\ UNCHANGED outsideAuth

NextAuth == AuthRequest \/ IpcMessage \/ AuthContinue \/ HandlerReturns

SpecAuth == Init /\ [][NextAuth]_vars

\* the event loop runs the continuation of a resolved promise, and a route
\* handler returns; when requests and messages arrive is up to the clients
\* and to rest
SpecAuthFair ==
    /\ Init
    /\ [][NextAuth]_vars
    /\ WF_vars(AuthContinue)
    /\ WF_vars(HandlerReturns)

(***************************************************************************)
(* GET /:bucket/:id as interleaved steps, one for each await that calls the *)
(* store: statObject and getObject of the origin, getObject and statObject  *)
(* of the cache entry, the listing and the removal of invalidateCacheFor,   *)
(* and the putObject of the write-back.  The reads are of the avatar of     *)
(* user 1; uploads and deletes of that avatar run in between.               *)
(***************************************************************************)
s_500 == <<"5", "0", "0">>

\* the <<type, size>> query parameters of the reads
ConcQueries == {<<Undefined, s_500>>}

InFlight(r) == r.pc \notin {"idle", "done"}

outsideReads == <<snowflake, last, psize, pout, kreq, kout, requests, listeners, sent>>

\* the catch block of the handler, for a store call that found no object
ReadNotFound(r) ==
    LET a == GetNotFound([Idle EXCEPT !.bucket = r.bucket, !.type = r.type], {s_webp})
    IN [r EXCEPT !.pc = "done", !.status = a.status, !.body = a.body]

\* the handler from the end of the cache lookup to the await of the
\* write-back: the decision, the transformer, and the entry to put
ReadGenerate(r) ==
    LET dimensions == parseSize(r.sizeQ)
        ext == getExtension(r.stat.ctype)
        use == useTransform(r.type, dimensions, r.buffer.w, r.buffer.h, ext)
        doResize == r.sizeQ # Undefined /\ dimensions.given
        doFormat == r.type # Undefined /\ r.type # ext
        served == IF use THEN Transform(r.buffer, doResize, dimensions, doFormat, r.type)
                  ELSE r.buffer
    IN IF use /\ ResizeThrows(doResize, dimensions)
       THEN [r EXCEPT !.pc = "done", !.status = 500]
       ELSE IF use /\ (doResize \/ doFormat)
       THEN [r EXCEPT !.pc = "write", !.body = served,
                      !.entry = CacheEntry(r, r.stat, served, dimensions)]
       ELSE [r EXCEPT !.pc = "done", !.status = 200, !.body = served]

ReadStart(p) ==
    \E q \in ConcQueries :
        /\ ~InFlight(reads[p])
        /\ reads' = [reads EXCEPT ![p] =
               [NoRead EXCEPT !.pc = "stat", !.bucket = s_avatars, !.id = <<"1">>,
                              !.type = q[1], !.sizeQ = q[2]]]
        /\ UNCHANGED objects
        /\ UNCHANGED outsideReads

\* const stat = await minio.statObject(bucket, id)
ReadStatOrigin(p) ==
    /\ reads[p].pc = "stat"
    /\ reads' = [reads EXCEPT ![p] =
           IF ~Has(objects, reads[p].bucket, reads[p].id) THEN ReadNotFound(reads[p])
           ELSE [reads[p] EXCEPT !.pc = "get", !.stat = objects[reads[p].bucket][reads[p].id],
                          !.etag = Etag(objects[reads[p].bucket][reads[p].id].data)]]
    /\ UNCHANGED objects
    /\ UNCHANGED outsideReads

\* const stream = await minio.getObject(bucket, id), up to the cache key
ReadGetOrigin(p) ==
    /\ reads[p].pc = "get"
    /\ reads' = [reads EXCEPT ![p] =
           IF ~Has(objects, reads[p].bucket, reads[p].id) THEN ReadNotFound(reads[p])
           ELSE IF ~IsImageType(reads[p].stat.ctype)
           THEN [reads[p] EXCEPT !.pc = "done", !.status = 200,
                          !.body = objects[reads[p].bucket][reads[p].id].data]
           ELSE [reads[p] EXCEPT !.pc = "cacheGet", !.buffer = objects[reads[p].bucket][reads[p].id].data,
                          !.key = cacheKey(reads[p].id, reads[p].type, reads[p].sizeQ, reads[p].stat.ctype)]]
    /\ UNCHANGED objects
    /\ UNCHANGED outsideReads

\* const cachedStream = await minio.getObject('cache', cacheKey)
ReadCacheGet(p) ==
    /\ reads[p].pc = "cacheGet"
    /\ reads' = [reads EXCEPT ![p] =
           IF ~Has(objects, s_cache, reads[p].key) THEN ReadGenerate([reads[p] EXCEPT !.missed = TRUE])
           ELSE [reads[p] EXCEPT !.pc = "cacheStat", !.cachedData = objects[s_cache][reads[p].key].data,
                          !.cachedStamp = objects[s_cache][reads[p].key].xetag]]
    /\ UNCHANGED objects
    /\ UNCHANGED outsideReads

\* const cachedStat = await minio.statObject('cache', cacheKey), and the
\* comparison of the etags
ReadCacheStat(p) ==
    /\ reads[p].pc = "cacheStat"
    /\ reads' = [reads EXCEPT ![p] =
           IF ~Has(objects, s_cache, reads[p].key) THEN ReadGenerate([reads[p] EXCEPT !.missed = TRUE])
           ELSE IF etagMatches(objects[s_cache][reads[p].key].xetag, reads[p].etag)
           THEN [reads[p] EXCEPT !.pc = "done", !.status = 200, !.body = reads[p].cachedData,
                          !.cachedEtag = objects[s_cache][reads[p].key].xetag,
                          !.cacheServed = TRUE]
           ELSE [reads[p] EXCEPT !.pc = "list", !.stale = TRUE,
                          !.cachedEtag = objects[s_cache][reads[p].key].xetag]]
    /\ UNCHANGED objects
    /\ UNCHANGED outsideReads

\* invalidateCacheFor: the listing; an error of the stream rejects, and the
\* handler's empty catch goes on to generate
ReadInvalidateList(p) ==
    \E inv \in {"ok", "listError"} :
        /\ reads[p].pc = "list"
        /\ reads' = [reads EXCEPT ![p] =
               IF inv = "listError" \/ ListCache(objects, reads[p].id) = {} THEN ReadGenerate(reads[p])
               ELSE [reads[p] EXCEPT !.pc = "remove", !.found = ListCache(objects, reads[p].id)]]
        /\ UNCHANGED objects
        /\ UNCHANGED outsideReads

\* invalidateCacheFor: removeObjects in the end listener; when it rejects the
\* promise is never settled
ReadInvalidateRemove(p) ==
    \E inv \in {"ok", "removeError"} :
        /\ reads[p].pc = "remove"
        /\ IF inv = "removeError"
           THEN /\ reads' = [reads EXCEPT ![p] = [reads[p] EXCEPT !.pc = "stalled"]]
                /\ UNCHANGED objects
           ELSE /\ reads' = [reads EXCEPT ![p] = ReadGenerate(reads[p])]
                /\ objects' = RemoveObjects(objects, s_cache, reads[p].found)
        /\ UNCHANGED outsideReads

\* await minio.putObject('cache', cacheKey, ...), and the response
ReadWriteBack(p) ==
    /\ reads[p].pc = "write"
    /\ objects' = PutObject(objects, s_cache, reads[p].key, reads[p].entry)
    /\ reads' = [reads EXCEPT ![p] =
           [reads[p] EXCEPT !.pc = "done", !.status = 200, !.wrote = TRUE,
                            !.overwrote = Has(objects, s_cache, reads[p].key)]]
    /\ UNCHANGED outsideReads

Read ==
    \E p \in Readers :
        \/ ReadStart(p)
        \/ ReadStatOrigin(p)
        \/ ReadGetOrigin(p)
        \/ ReadCacheGet(p)
        \/ ReadCacheStat(p)
        \/ ReadInvalidateList(p)
        \/ ReadInvalidateRemove(p)
        \/ ReadWriteBack(p)

\* POST /upload of an avatar by user 1, between the steps of the reads
ConcUpload ==
    \E file \in {FileA, FileC} :
        /\ objects' = UploadHandler(objects, snowflake, <<"1">>, file, s_avatars).objs
        /\ UNCHANGED reads
        /\ UNCHANGED outsideReads

\* DELETE /avatars/1/object by user 1, between the steps of the reads
ConcDelete ==
    \E inv \in InvChoices(Has(objects, s_avatars, <<"1">>), <<"1">>) :
        /\ Has(objects, s_avatars, <<"1">>)
        /\ objects' = DeleteHandler(objects, <<"1">>, s_avatars, <<"1">>, inv).objs
        /\ UNCHANGED reads
        /\ UNCHANGED outsideReads

NextConc == Read \/ ConcUpload \/ ConcDelete

SpecConc == Init /\ [][NextConc]_vars

(***************************************************************************)
(* Uploads and deletes of two users through the HTTP routes, with reads     *)
(* that fill the cache in between                                          *)
(***************************************************************************)
ContentBuckets == {s_avatars, s_attachments}

OwnFiles == {FileA, FileB, FileD}

\* POST /upload: the <<userId, file, bucket>> requests of the two users
OwnUploadInputs ==
    {<<u, file, s_avatars>> : u \in Users, file \in {FileA, FileB}}
        \cup {<<u, FileD, b>> : u \in Users, b \in {s_attachments, s_cache}}

\* the ids requests name: both users' ids, the first id generateSnowflake
\* issues, and the names of the objects of the bucket
OwnIds(b) == Users \cup {generateSnowflake(0)} \cup DOMAIN objects[b]

OwnUpload ==
    \E in \in OwnUploadInputs :
        \E res \in {UploadHandler(objects, snowflake, in[1], in[2], in[3])} :
           /\ res.n <= MaxSnowflakes
           /\ objects' = res.objs
           /\ snowflake' = res.n
           /\ last' = res.r
           /\ UNCHANGED <<psize, pout, kreq, kout, requests, listeners, sent, reads>>

OwnGet ==
    \E bucket \in ContentBuckets :
        \E id \in OwnIds(bucket) :
            \E inv \in InvChoices(ReadsStale(bucket, id, Undefined, s_2000), id) :
                \E res \in {GetHandler(objects, {}, bucket, id, Undefined, s_2000, inv)} :
                   /\ CacheBounded(res.objs)
                   /\ objects' = res.objs
                   /\ last' = res.r
                   /\ UNCHANGED <<snowflake, psize, pout, kreq, kout, requests, listeners, sent, reads>>

OwnDelete ==
    \E userId \in Users, bucket \in Buckets :
        \E id \in OwnIds(bucket) :
            \E inv \in InvChoices(Has(objects, bucket, id), id) :
                \E res \in {DeleteHandler(objects, userId, bucket, id, inv)} :
                   /\ objects' = res.objs
                   /\ last' = res.r
                   /\ UNCHANGED <<snowflake, psize, pout, kreq, kout, requests, listeners, sent, reads>>

NextOwn == OwnUpload \/ OwnGet \/ OwnDelete

SpecOwn == Init /\ [][NextOwn]_vars

(***************************************************************************)
(* Properties                                                              *)
(***************************************************************************)
IsGet == last.op = "GET"
IsDelete == last.op = "DELETE"
CacheNames == DOMAIN objects[s_cache]

\* the policy of the specification: a transform is needed when the requested
\* size is smaller than the origin's or the requested format differs
SizeSmaller(dimensions, origin) ==
    dimensions.given /\ (dimensions.width < origin.w \/ dimensions.height < origin.h)

FormatDiffers(type, origin) == type # Undefined /\ type # origin.fmt

TransformNeeded ==
    SizeSmaller(parseSize(last.sizeQ), last.origin) \/ FormatDiffers(last.type, last.origin)

C2_EngineIffNeeded ==
    (IsGet /\ last.image /\ last.status = 200 /\ ~last.cacheServed) =>
        (last.engine <=> TransformNeeded)

\* C3: a GET of an image origin for which no transform is needed (and which
\* is not answered from the cache) writes no entry to the cache, and what it
\* returns has the format and the pixel size of the origin.
C3_PassThroughWritesNothing ==
    (IsGet /\ last.image /\ last.status = 200 /\ ~last.cacheServed /\ ~TransformNeeded) =>
        /\ ~last.wrote
        /\ last.body.fmt = last.origin.fmt
        /\ <<last.body.w, last.body.h>> = <<last.origin.w, last.origin.h>>

\* the normalized (format, dimensions) of a read request
Normalized(type, size, ctype) ==
    <<IF type # Undefined THEN type ELSE getExtension(ctype), parseSize(size)>>

KeysBuilt == kout # <<>>

\* C4: two reads of one origin whose type and size normalize to the same
\* (format, dimensions) use the same cache key.
C4_SameNormalizedSameKey ==
    (KeysBuilt /\ Normalized(kreq.type1, kreq.size1, kreq.ctype)
                    = Normalized(kreq.type2, kreq.size2, kreq.ctype))
        => kout[1] = kout[2]

\* C5: a derivative is served from the cache only to a request with the
\* normalized format and dimensions it was generated for.
C5_HitOnlyForSameSize ==
    (IsGet /\ last.cacheServed) =>
        /\ last.servedGen.dimensions = parseSize(last.sizeQ)
        /\ last.servedGen.format = (IF last.type # Undefined THEN last.type
                                    ELSE last.origin.fmt)

\* C6: invalidating the derivatives of origin id X removes no derivative of an
\* origin with another id.
C6_InvalidationKeepsOthers ==
    \A of \in last.removedOf : of[2] = last.id

\* the dimensions the size table of the specification gives a size string with
\* at most one x: none when a component is missing, zero or not a number
TableDims(str) ==
    IF str = Undefined THEN NoDims
    ELSE LET parts == Split(str, "x")
             w == Number(parts[1])
             h == Number(parts[Len(parts)])
         IN IF \E i \in DOMAIN parts : parts[i] = <<>> \/ Falsy(Number(parts[i]))
            THEN NoDims
            ELSE Dims(w, h)

\* C7: parseSize gives every size string the dimensions of the table.
C7_SizeTable ==
    (pout.done /\ (psize = Undefined \/ Len(Split(psize, "x")) <= 2)) =>
        pout.dimensions = TableDims(psize)

\* C8: after a DELETE of an image origin that is answered 204, the origin is
\* absent and the cache holds no derivative of it; the DELETE is answered 204
\* whenever the storage calls succeed, also when there was no derivative.
C8_DeleteRemovesDerivatives ==
    (IsDelete /\ last.image) =>
        /\ last.status = 204 =>
              /\ ~Has(objects, last.bucket, last.id)
              /\ \A k \in CacheNames :
                    /\ ~StartsWith(k, last.id \o s_delim)
                    /\ objects[s_cache][k].gen.id # last.id
        /\ (last.origin # NoBody /\ last.error # Errors.Forbidden
              /\ last.invalidation = "resolved") => last.status = 204

C8_Witness ==
    /\ IsDelete /\ last.image /\ last.status = 204
    /\ last.bucket = s_avatars
    /\ Cardinality(last.removed) = 2

C8_WitnessNoDerivatives ==
    /\ IsDelete /\ last.image /\ last.status = 204
    /\ last.removed = {}
    /\ last.invalidation = "resolved"

\* C9: a DELETE by a user who is not the owner of the origin is answered with
\* the ownership error, which is not the not-found error, and a DELETE of an
\* absent origin with the not-found error; neither changes the store.
C9_RejectedDeleteChangesNothing ==
    [][last'.op = "DELETE" =>
          IF ~Has(objects, last'.bucket, last'.id)
          THEN /\ last'.status = 404
               /\ last'.error = Errors.FileNotFound
               /\ objects' = objects
          ELSE (objects[last'.bucket][last'.id].userid # last'.user) =>
                  /\ last'.status = 400
                  /\ last'.error = Errors.Forbidden
                  /\ last'.error # Errors.FileNotFound
                  /\ objects' = objects]_vars

C9_Witness ==
    /\ IsDelete /\ last.error = Errors.Forbidden
    /\ last.bucket = s_avatars
    /\ Has(objects, last.bucket, last.id)
    /\ ListCache(objects, last.id) # {}

C11_NonImageVerbatim ==
    [][(last'.op = "GET" /\ Has(objects, last'.bucket, last'.id)
          /\ ~StartsWith(objects[last'.bucket][last'.id].ctype, s_image)) =>
          IF last'.type = Undefined \/ isValidFormat(last'.type)
          THEN /\ last'.status = 200
               /\ last'.body = objects[last'.bucket][last'.id].data
               /\ last'.ctype = objects[last'.bucket][last'.id].ctype
               /\ last'.key = <<>>
               /\ ~last'.cacheServed /\ ~last'.stale /\ ~last'.engine /\ ~last'.wrote
               /\ last'.invalidation = "none"
               /\ objects' = objects
          ELSE /\ last'.status = 400
               /\ last'.error = Errors.InvalidImageType
               /\ objects' = objects]_vars

C11_Witness ==
    /\ IsGet /\ last.status = 200
    /\ last.bucket = s_attachments
    /\ last.type = s_webp /\ last.sizeQ = s_2000
    /\ last.body = FileD.data
    /\ last.ctype = s_apppdf

\* C11 (as claimed): a GET of an origin whose content-type is not an image
\* type returns the origin bytes for every combination of type and size.
C11_NonImageAnyQuery ==
    [][(last'.op = "GET" /\ Has(objects, last'.bucket, last'.id)
          /\ ~StartsWith(objects[last'.bucket][last'.id].ctype, s_image)) =>
          /\ last'.status = 200
          /\ last'.body = objects[last'.bucket][last'.id].data]_vars

\* the policy of the specification, for the request and origin of record r
NeededFor(r) ==
    SizeSmaller(parseSize(r.sizeQ), r.origin) \/ FormatDiffers(r.type, r.origin)

SameRequest(r1, r2) ==
    <<r1.bucket, r1.id, r1.type, r1.sizeQ>> = <<r2.bucket, r2.id, r2.type, r2.sizeQ>>

\* C12: after a GET that required a transform has completed, the cache holds
\* an entry at the key of the request, with the bytes that were returned and
\* stamped with the origin's current etag; the same GET made again next, the
\* origin being unchanged, returns the same bytes from the cache, does not
\* invoke the transform engine and writes nothing.
C12_SecondReadHitsCache ==
    [][/\ (last'.op = "GET" /\ last'.image /\ last'.status = 200 /\ NeededFor(last')) =>
             /\ last'.key \in DOMAIN objects'[s_cache]
             /\ objects'[s_cache][last'.key].xetag = last'.originEtag
             /\ objects'[s_cache][last'.key].data = last'.body
       /\ (/\ last.op = "GET" /\ last.image /\ last.status = 200 /\ NeededFor(last)
           /\ last'.op = "GET" /\ SameRequest(last, last')) =>
             /\ last'.status = 200
             /\ last'.cacheServed
             /\ last'.body = last.body
             /\ ~last'.engine
             /\ ~last'.wrote
             /\ objects' = objects]_vars

C12_Witness ==
    /\ IsGet /\ last.cacheServed /\ last.status = 200
    /\ last.bucket = s_avatars
    /\ TransformNeeded
    /\ last.body.re
    /\ last.servedGen.id = last.id
    /\ last.servedGen.dimensions = parseSize(last.sizeQ)
    /\ objects[s_cache][last.key].xetag = Etag(objects[s_avatars][last.id].data)

\* C13: no GET and no DELETE whose bucket parameter names the cache bucket
\* reads, serves, writes or deletes an object of the cache.
C13_CacheNeverAddressed ==
    [][(last'.op \in {"GET", "DELETE"} /\ last'.bucket = s_cache) =>
          /\ last'.status \notin {200, 204}
          /\ last'.origin = NoBody
          /\ objects' = objects]_vars

\* C15: a GET that found a stale entry writes a regenerated derivative only
\* after the invalidation has run to completion; an invalidation that failed
\* is surfaced by the read (a server error, and no write).
C15_NoWriteAfterSilentFailure ==
    (IsGet /\ last.stale) =>
        /\ last.wrote => last.invalidation = "resolved"
        /\ last.invalidation = "rejected" => (last.status = 500 /\ ~last.wrote)

\* C16: a GET whose invalidation failed, while listing or while removing,
\* still completes: it is answered with a regenerated derivative or with a
\* server error.
C16_ReadCompletesAfterFailedInvalidation ==
    (IsGet /\ last.stale /\ last.invalidation \in {"rejected", "pending"}) =>
        last.status \in {200, 500}

\* an Authorization header of the form "Bearer <token>"
WellFormed(header) == \E t \in Tokens : header = s_Bearer \o s_space \o t

TokenOf(header) == SubSeq(header, Len(s_Bearer) + 2, Len(header))

\* C14: the route handler of an authenticated request runs only after the
\* middleware received a VERIFY_TOKEN response from rest that carries the
\* token of the request, valid = true and a userId that is not null, and the
\* userId attached to the request is the one of that response; a request
\* whose header is not "Bearer <token>" is answered 401 with no listener
\* registered and no verification request sent.
C14_HandlerOnlyAfterVerification ==
    \A i \in 1..MaxRequests :
        /\ requests[i].ran =>
              /\ WellFormed(requests[i].header)
              /\ <<i, TokenOf(requests[i].header)>> \in sent
              /\ requests[i].response # NoMessage
              /\ requests[i].response.from = "rest"
              /\ requests[i].response.type = "response"
              /\ requests[i].response.action = "VERIFY_TOKEN"
              /\ {"token", "valid", "userId"} \subseteq requests[i].response.fields
              /\ requests[i].response.token = TokenOf(requests[i].header)
              /\ requests[i].response.valid
              /\ requests[i].response.userId # Null
              /\ requests[i].userId = requests[i].response.userId
        /\ (requests[i].phase # "none" /\ ~WellFormed(requests[i].header)) =>
              /\ requests[i].phase = "done"
              /\ requests[i].status = 401
              /\ ~requests[i].ran
              /\ i \notin listeners
              /\ \A t \in Tokens \cup {Undefined, <<>>} : <<i, t>> \notin sent

C14_Witness ==
    /\ requests[1].ran /\ requests[1].phase = "done" /\ requests[1].status = 200
    /\ requests[1].userId = <<"1">>
    /\ requests[2].phase = "waiting"
    /\ requests[2].token # requests[1].token

\* C20: a request that has completed has no listener left on ipc, and the
\* listeners registered are never more than the requests that await their
\* verification.
C20_WaitersRemoved ==
    /\ \A i \in 1..MaxRequests : requests[i].phase = "done" => i \notin listeners
    /\ Cardinality(listeners)
          <= Cardinality({i \in 1..MaxRequests : requests[i].phase \in {"waiting", "resolved"}})

\* C17: a read returns cached bytes only if they were stored under the
\* token the read compared with the origin's: the bytes it fetched from the
\* cache and the stamp it validated belong to one version of the entry.
C17_ServedBytesMatchStamp ==
    \A p \in Readers :
        reads[p].cacheServed =>
            /\ reads[p].cachedStamp = reads[p].cachedEtag
            /\ reads[p].cachedStamp = reads[p].etag

\* two reads of the same derivative key that saw the same origin and both
\* missed the cache
SameMiss(r1, r2) ==
    /\ r1.missed /\ r2.missed
    /\ r1.key = r2.key
    /\ <<r1.type, r1.sizeQ>> = <<r2.type, r2.sizeQ>>
    /\ r1.etag = r2.etag
    /\ r1.buffer = r2.buffer

Quiescent == \A p \in Readers : ~InFlight(reads[p])

\* C19: when no request is in flight, every entry of the cache belongs to an
\* origin that exists.
C19_NoDerivativeOutlivesOrigin ==
    Quiescent =>
        \A k \in DOMAIN objects[s_cache] :
            Has(objects, objects[s_cache][k].gen.bucket, objects[s_cache][k].gen.id)

\* C21: a request that waits for the verification of its token eventually
\* stops waiting, whether a matching response arrives or not.
C21_VerificationEnds ==
    \A i \in 1..MaxRequests :
        (requests[i].phase = "waiting") ~> (requests[i].phase # "waiting")

\* C22: every entry of the cache that carries a stamp holds bytes made from
\* the origin bytes whose etag the stamp is.
C22_EntryFaithfulToStamp ==
    \A k \in DOMAIN objects[s_cache] :
        objects[s_cache][k].xetag # Null =>
            objects[s_cache][k].data.src = objects[s_cache][k].xetag[2].src

\* the content-type and the owner the upload request gave the object it stored
StoredAsUploaded ==
    (last.op = "UPLOAD" /\ last.status = 201) =>
        /\ last.bucket \in ContentBuckets
        /\ Has(objects, last.bucket, last.id)
        /\ objects[last.bucket][last.id].userid = last.user
        /\ \E file \in OwnFiles :
              /\ file.data = last.origin
              /\ objects[last.bucket][last.id].data = file.data
              /\ objects[last.bucket][last.id].ctype = file.type

OwnedMetadata ==
    \A b \in ContentBuckets : \A k \in DOMAIN objects[b] :
        /\ objects[b][k].ctype \in {file.type : file \in OwnFiles}
        /\ objects[b][k].userid \in Users
        /\ b # s_attachments => k = objects[b][k].userid

\* an object of a content bucket that a step replaces or removes is owned by
\* the user whose request the step serves
OnlyOwnerChanges ==
    \A b \in ContentBuckets : \A k \in DOMAIN objects[b] :
        (~Has(objects', b, k) \/ objects'[b][k] # objects[b][k]) =>
            /\ last'.op \in {"UPLOAD", "DELETE"}
            /\ objects[b][k].userid = last'.user

\* C23: after any sequence of uploads and deletes every object in a content
\* bucket carries a content-type and its uploader's user id as owner, an object
\* of a content bucket other than attachments is named by its owner's user id,
\* and a step replaces or deletes an object only for the object's owner.
C23_OwnedOrigins ==
    /\ [](OwnedMetadata /\ StoredAsUploaded)
    /\ [][OnlyOwnerChanges]_vars

\* the second user's avatar and an attachment are stored, the first user has
\* replaced their own avatar, and the second user's DELETE of it was refused
C23_Witness ==
    /\ last.op = "DELETE" /\ last.error = Errors.Forbidden
    /\ last.bucket = s_avatars /\ last.id = <<"1">> /\ last.user = <<"2">>
    /\ Has(objects, s_avatars, <<"1">>) /\ objects[s_avatars][<<"1">>].data = FileB.data
    /\ Has(objects, s_avatars, <<"2">>)
    /\ \E k \in DOMAIN objects[s_attachments] : objects[s_attachments][k].userid = <<"2">>
    /\ ListCache(objects, <<"1">>) # {}

====
